---- MODULE Spec2Model ----
(***************************************************************************)
(* FastToggle: the two batch drivers of the repository.                    *)
(*                                                                         *)
(*   toggle_automation.py  ToggleAutomation  (mode "toggle", mutating)     *)
(*   check_status.py       StatusChecker     (mode "check", inspect-only)  *)
(*                                                                         *)
(* One run of run() is modelled as a sequential program: pc is the place   *)
(* the single thread of control has reached.  Every call into the browser  *)
(* (Playwright) is a step whose answer the environment chooses: it returns *)
(* or it raises.  The calls are made on behalf of a subject: the session   *)
(* (subject 0) or the page of a row of the sheet (the row's number).  The  *)
(* nominal answer of a call is always possible; any other answer makes the *)
(* subject faulty, and a run admits at most maxFaulty faulty subjects      *)
(* (maxFaulty < 0: no limit, and the faulty subjects are not recorded).    *)
(***************************************************************************)
EXTENDS Integers, Sequences, FiniteSets

(***************************************************************************)
(* Program constants.                                                      *)
(***************************************************************************)
\* BATCH_SIZE = 5
BATCH_SIZE == 5
\* str(e)[:100] in the two handlers of process_batch
TruncLen == 100
\* save_selectors holds two selectors
NumSaveSelectors == 2
\* pendo_dismiss_selectors holds nine selectors
NumDismissSelectors == 9
\* for attempt in range(2)
NumAttempts == 2

(***************************************************************************)
(* Bounds of the model.                                                    *)
(***************************************************************************)
\* rows of the sheet in a run whose environment is unrestricted
MaxTasks == 2
\* rows of the sheet in the longest run of the specification of long sheets
MaxBatchTasks == 10
\* subjects (the session, the page of a row) whose calls may fail in such a run
MaxFaulty == 1
\* rows of the sheet in the runs checked for termination
MaxLiveTasks == 1
\* lengths of the text of a raised exception, str(e)
ShortExc == 12
LongExc == 150

Unlimited == 0 - 1

VARIABLES
  mode,         \* "toggle": ToggleAutomation, "check": StatusChecker
  state,        \* self.state, "ON" or "OFF" ("-" for the StatusChecker)
  total_urls,   \* len(df), the rows 1..total_urls of the sheet in order
  maxFaulty,    \* subjects whose calls may deviate in this run (< 0: no limit)
  faulty,       \* the subjects whose calls have deviated
  pc,           \* position of the thread of control
  browser,      \* self.browser: "none", "open", "closed"
  context,      \* self.context: "none", "open", "closed"
  openPages,    \* pages of the context that are open in the browser
  results,      \* self.results
  batch_num,    \* loop variable of run(), 0-based
  batch_idx,    \* rows of df_batch the opening loop has gone through
  pages,        \* the list pages of process_batch, each page by its row
  idx,          \* loop variable of the loops over pages
  result,       \* the dict result of the state machine being run
  sm,           \* locals of the state machine and what it did to the page
  established,  \* "Login complete - Session established" was reached
  finalized,    \* times save_results(); print_summary() ran in the finally
  sess,         \* what run() did to the session: launches, contexts, login,
                \* calls of close()
  closes,       \* rows of the batch whose page got a call of close(), in order
  dp,           \* locals of dismiss_popups and what it did to the page
  slow,         \* rows of the batch whose page did not reach network-idle
                \* in the load-wait loop and is not closed yet
  peer          \* the dispatcher of check_status.py, run beside the script
                \* of mode on the same sheet and the same answers

vars == <<mode, state, total_urls, maxFaulty, faulty, pc, browser, context,
          openPages, results, batch_num, batch_idx, pages, idx, result, sm,
          established, finalized, sess, closes, dp, slow, peer>>

\* the lengths str(e) takes: below and above TruncLen in a run without a
\* limit on the faulty subjects, below it in a run with one
ExcLens == IF maxFaulty < 0 THEN {ShortExc, LongExc} ELSE {ShortExc}

Min(a, b) == IF a < b THEN a ELSE b

(***************************************************************************)
(* The environment.                                                        *)
(***************************************************************************)
Session == 0

CanDeviate(subject) ==
  \/ maxFaulty < 0
  \/ subject \in faulty
  \/ Cardinality(faulty) < maxFaulty

\* the environment answers a call made for subject with ans
Env(subject, ans, nominal) ==
  /\ ans = nominal \/ CanDeviate(subject)
  /\ faulty' = IF ans # nominal /\ maxFaulty >= 0
                THEN faulty \cup {subject}
                ELSE faulty

(***************************************************************************)
(* Batching arithmetic of run().                                           *)
(***************************************************************************)
\* a variant of total_batches that rounds down
total_batches_floor(n) == n \div BATCH_SIZE

total_batches(n) == (n + BATCH_SIZE - 1) \div BATCH_SIZE

start_idx(b) == b * BATCH_SIZE

end_idx(b, n) == Min(start_idx(b) + BATCH_SIZE, n)

\* len(df_batch) for df.iloc[start_idx:end_idx]
BatchLen(b, n) == end_idx(b, n) - start_idx(b)

\* a variant of RowOf for batches cut from the rows after the first
RowOf_rest(b, i) == start_idx(b) + i + 2

\* the row of the sheet at position i (0-based) of batch b, rows counted from 1
RowOf(b, i) == start_idx(b) + i + 1

(***************************************************************************)
(* The dispatcher of check_status.py (run and process_batch), kept beside  *)
(* the script of mode: it is given the sheet of that script and, call by   *)
(* call, the answer that script got.  Its state machine is one step.       *)
(*   pc        "run": in run(), outside process_batch; "open", "load",     *)
(*             "front", "evaluate", "close": the loops of process_batch    *)
(*   contexts  contexts created                                            *)
(*   outcomes  the rows of self.results, in order                          *)
(***************************************************************************)
PeerStart ==
  [pc |-> "run", contexts |-> 0, batch_num |-> 0, batch_idx |-> 0,
   pages |-> <<>>, idx |-> 0, closes |-> <<>>, outcomes |-> <<>>]

\* total_batches = (total_urls + BATCH_SIZE - 1) // BATCH_SIZE
PeerBatches(n) == (n + BATCH_SIZE - 1) \div BATCH_SIZE

\* len(df.iloc[start_idx:end_idx])
PeerBatchLen(b, n) == Min(b * BATCH_SIZE + BATCH_SIZE, n) - b * BATCH_SIZE

\* a variant of PeerRowOf for batches cut from the rows after the first
PeerRowOf_rest(b, i) == b * BATCH_SIZE + i + 2

\* the row at position i (0-based) of df.iloc[start_idx:end_idx]
PeerRowOf(b, i) == b * BATCH_SIZE + i + 1

\* self.context = self.browser.new_context()
PeerNewContext(p, ans) ==
  IF ans = "ok" THEN [p EXCEPT !.contexts = @ + 1] ELSE p

\* for batch_num in range(total_batches): self.process_batch(...)
PeerBatchLoop(p, n) ==
  [p EXCEPT !.pc = IF p.batch_num < PeerBatches(n) THEN "open" ELSE "run",
            !.pages = <<>>, !.batch_idx = 0, !.idx = 0, !.closes = <<>>]

\* try: new_page(); goto(); pages.append(page)
\* except: self.results.append({...}); continue
PeerOpen(p, ans) ==
  IF ans = "ok"
  THEN [p EXCEPT !.pages = Append(@, PeerRowOf(p.batch_num, p.batch_idx)),
                 !.batch_idx = @ + 1]
  ELSE [p EXCEPT !.outcomes = Append(@, PeerRowOf(p.batch_num, p.batch_idx)),
                 !.batch_idx = @ + 1]

PeerOpenDone(p) == [p EXCEPT !.pc = "load", !.idx = 0]

\* for page in pages: try: page.wait_for_load_state(...) except: pass
PeerLoad(p) == [p EXCEPT !.idx = @ + 1]

PeerLoadDone(p) == [p EXCEPT !.pc = "front", !.idx = 0]

\* try: page.bring_to_front(); ...; result = self.check_toggle_status(...)
\* except Exception as e: self.results.append({...})
PeerFront(p, ans) ==
  IF ans = "ok"
  THEN [p EXCEPT !.pc = "evaluate"]
  ELSE [p EXCEPT !.pc = "close", !.outcomes = Append(@, p.pages[p.idx + 1])]

\* self.results.append(result)
PeerAppend(p) ==
  [p EXCEPT !.pc = "close", !.outcomes = Append(@, p.pages[p.idx + 1])]

\* finally: try: page.close() except Exception: pass
PeerClose(p) ==
  [p EXCEPT !.pc = "front", !.closes = Append(@, p.pages[p.idx + 1]),
            !.idx = @ + 1]

\* process_batch returns
PeerEvalDone(p) == [p EXCEPT !.pc = "run", !.batch_num = @ + 1]

(***************************************************************************)
(* Outcome records.                                                        *)
(* msg.kind names the literal text of the message, msg.exc is the number   *)
(* of characters of exception text the message carries.                    *)
(***************************************************************************)
Msg(kind, n) == [kind |-> kind, exc |-> n]

\* str(e)[:100]
Truncate(n) == Min(n, TruncLen)

IdleSm == [ran |-> FALSE, attempt |-> 0, toggle_found |-> FALSE, waits |-> 0,
           reloads |-> 0, count |-> "?", reads |-> 0, clickTries |-> 0,
           clicks |-> 0, sel |-> 0, saveTries |-> 0, saveClicks |-> 0,
           saved |-> FALSE, raised |-> FALSE, dismissals |-> 0,
           seen |-> "?", reseen |-> "?", front |-> "?", events |-> <<>>]

\* locals of one call of dismiss_popups and what the call did
\*   k        selectors of pendo_dismiss_selectors the loop has gone through
\*   clicks   calls of close_btn.click(force=True) that returned
\*   escape   "none", then "sent" or "raised": page.keyboard.press("Escape")
\*   removal  "none", then "done" or "raised": the page.evaluate(...) that
\*            removes the overlay nodes
\*   ret      "?", then what the call returned, "true" or "false"
IdleDp == [k |-> 0, clicks |-> 0, escape |-> "none", removal |-> "none",
           ret |-> "?"]

\* what run() has done to the session so far
\*   contexts      calls of new_context() that returned
\*   login         "none", then what the login step on the first row came to:
\*                 "no_form"   is_login_page() returned False
\*                 "accepted"  login() returned True, the form is gone
\*                 "rejected"  login() returned True, the form is still shown
\*                 "failed"    login() returned False
\*   ctx_closes    calls of self.context.close() made
\*   br_closes     calls of self.browser.close() made
\*   close_raised  one of these calls raised
\*   form          "?", then what is_login_page(first_page) returned
\*   logins        calls of login() made
\*   cred          rows of the sheet whose userid and password were given
\*                 to login()
\*   exit          "none", then how control left the try block of run():
\*                 "no_browser"    the return after the three launches
\*                 "login_failed"  the return after login() returned False
\*                 "completed"     the end of the block
\*                 "exception"     through the handler
NoSession == [contexts |-> 0, login |-> "none", ctx_closes |-> 0,
              br_closes |-> 0, close_raised |-> FALSE, form |-> "?",
              logins |-> 0, cred |-> {}, exit |-> "none"]

NoResult == [status |-> "-", before |-> "-", after |-> "-", msg |-> Msg("", 0)]

\* the dict appended when a page fails to open (toggle_automation.py)
OpenFailedRecord(row, n) ==
  [task |-> row, status |-> "error", before |-> "UNKNOWN", after |-> "UNKNOWN",
   msg |-> Msg("Failed to open page: ", Truncate(n))]

\* the dict appended when a page fails to open (check_status.py)
OpenFailedStatus(row, n) ==
  [task |-> row, status |-> "ERROR", before |-> "-", after |-> "-",
   msg |-> Msg("Failed to open page: ", Truncate(n))]

\* the dict appended by the handler of the evaluation loop (toggle_automation.py)
EvalFailedRecord(row, n) ==
  [task |-> row, status |-> "error", before |-> "UNKNOWN", after |-> "UNKNOWN",
   msg |-> Msg("Error: ", Truncate(n))]

\* the dict appended by the handler of the evaluation loop (check_status.py)
EvalFailedStatus(row, n) ==
  [task |-> row, status |-> "ERROR", before |-> "-", after |-> "-",
   msg |-> Msg("Error: ", Truncate(n))]

EvalFailed(row, n) ==
  IF mode = "toggle" THEN EvalFailedRecord(row, n) ELSE EvalFailedStatus(row, n)

\* result['userid'] = userid; self.results.append(result)
Recorded(row, r) ==
  [task |-> row, status |-> r.status, before |-> r.before, after |-> r.after,
   msg |-> r.msg]

(***************************************************************************)
(* Initial states.                                                         *)
(***************************************************************************)
InitRun(n, b) ==
  /\ \/ mode = "toggle" /\ state \in {"ON", "OFF"}
     \/ mode = "check" /\ state = "-"
  /\ total_urls = n
  /\ maxFaulty = b
  /\ faulty = {}
  /\ pc = "start"
  /\ browser = "none"
  /\ context = "none"
  /\ openPages = 0
  /\ results = <<>>
  /\ batch_num = 0
  /\ batch_idx = 0
  /\ pages = <<>>
  /\ idx = 0
  /\ result = NoResult
  /\ sm = IdleSm
  /\ established = FALSE
  /\ finalized = 0
  /\ sess = NoSession
  /\ closes = <<>>
  /\ dp = IdleDp
  /\ slow = {}
  /\ peer = PeerStart

\* any sheet of at most MaxTasks rows, any behaviour of the browser
Init == \E n \in 0..MaxTasks : InitRun(n, Unlimited)

\* a sheet of more than one batch, at most MaxFaulty faulty subjects
InitBatch == \E n \in {BATCH_SIZE + 1, MaxBatchTasks} : InitRun(n, MaxFaulty)

(***************************************************************************)
(* run(): launch, session, login.                                          *)
(***************************************************************************)
\* a variant of Start where the return of an empty sheet is finalized
Start_finalize ==
  /\ pc = "start"
  /\ IF total_urls = 0
     THEN pc' = "finally" /\ faulty' = faulty
     ELSE \E ans \in {"ok", "raise"} :
            /\ Env(Session, ans, "ok")
            /\ pc' = IF ans = "ok" THEN "launch_chromium" ELSE "except"
  /\ UNCHANGED <<mode, state, total_urls, maxFaulty, browser, context,
                 openPages, results, batch_num, batch_idx, pages, idx, result,
                 sm, established, finalized, sess, closes, dp, slow, peer>>

\* df = self.load_excel(); if len(df) == 0: return
\* with sync_playwright() as p
Start ==
  /\ pc = "start"
  /\ IF total_urls = 0
     THEN pc' = "returned" /\ faulty' = faulty
     ELSE \E ans \in {"ok", "raise"} :
            /\ Env(Session, ans, "ok")
            /\ pc' = IF ans = "ok" THEN "launch_chromium" ELSE "except"
  /\ UNCHANGED <<mode, state, total_urls, maxFaulty, browser, context, openPages, results,
                 batch_num, batch_idx, pages, idx, result, sm, established,
                 finalized,
                 sess, closes,
                 dp, slow, peer>>

\* a variant of NextEngine that starts over after the third launch
NextEngine_again(p) ==
  CASE p = "launch_chromium" -> "launch_chrome"
    [] p = "launch_chrome" -> "launch_firefox"
    [] OTHER -> "launch_chromium"

NextEngine(p) ==
  CASE p = "launch_chromium" -> "launch_chrome"
    [] p = "launch_chrome" -> "launch_firefox"
    [] OTHER -> "no_browser"

\* the three launch attempts, each skipped once self.browser is set
Launch ==
  /\ pc \in {"launch_chromium", "launch_chrome", "launch_firefox"}
  /\ \E ans \in {"ok", "raise"} :
       /\ Env(Session, ans, "ok")
       /\ IF ans = "ok"
          THEN browser' = "open" /\ pc' = "new_context"
          ELSE browser' = browser /\ pc' = NextEngine(pc)
  /\ UNCHANGED <<mode, state, total_urls, maxFaulty, context, openPages, results,
                 batch_num, batch_idx, pages, idx, result, sm, established,
                 finalized, sess, closes,
                 dp, slow, peer>>

\* a variant of NoBrowser that returns past the finally clause
NoBrowser_exit ==
  /\ pc = "no_browser"
  /\ pc' = "done"
  /\ sess' = [sess EXCEPT !.exit = "no_browser"]
  /\ UNCHANGED <<mode, state, total_urls, maxFaulty, faulty, browser, context,
                 openPages, results, batch_num, batch_idx, pages, idx, result,
                 sm, established, finalized, closes,
                 dp, slow, peer>>

\* a variant of NoBrowser that goes on without a browser
NoBrowser_continue ==
  /\ pc = "no_browser"
  /\ pc' = "new_context"
  /\ sess' = [sess EXCEPT !.exit = "no_browser"]
  /\ UNCHANGED <<mode, state, total_urls, maxFaulty, faulty, browser, context,
                 openPages, results, batch_num, batch_idx, pages, idx, result,
                 sm, established, finalized, closes,
                 dp, slow, peer>>

\* if not self.browser: ... return
NoBrowser ==
  /\ pc = "no_browser"
  /\ pc' = "finally"
  /\ sess' = [sess EXCEPT !.exit = "no_browser"]
  /\ UNCHANGED <<mode, state, total_urls, maxFaulty, faulty, browser, context, openPages,
                 results, batch_num, batch_idx, pages, idx, result, sm,
                 established, finalized, closes,
                 dp, slow, peer>>

\* self.context = self.browser.new_context()
NewContext ==
  /\ pc = "new_context"
  /\ \E ans \in {"ok", "raise"} :
       /\ Env(Session, ans, "ok")
       /\ peer' = PeerNewContext(peer, ans)
       /\ IF ans = "ok"
          THEN /\ context' = "open" /\ pc' = "first_new_page"
               /\ sess' = [sess EXCEPT !.contexts = @ + 1]
          ELSE context' = context /\ pc' = "except" /\ sess' = sess
  /\ UNCHANGED <<mode, state, total_urls, maxFaulty, browser, openPages, results,
                 batch_num, batch_idx, pages, idx, result, sm, established,
                 finalized, closes,
                 dp, slow>>

\* first_page = self.context.new_page()
FirstNewPage ==
  /\ pc = "first_new_page"
  /\ \E ans \in {"ok", "raise"} :
       /\ Env(Session, ans, "ok")
       /\ IF ans = "ok"
          THEN openPages' = openPages + 1 /\ pc' = "first_goto"
          ELSE openPages' = openPages /\ pc' = "except"
  /\ UNCHANGED <<mode, state, total_urls, maxFaulty, browser, context, results,
                 batch_num, batch_idx, pages, idx, result, sm, established,
                 finalized,
                 sess, closes,
                 dp, slow, peer>>

\* a variant of FirstGoto that goes to the batches without the login step
FirstGoto_skip_login ==
  /\ pc = "first_goto"
  /\ \E ans \in {"ok", "raise"} : Env(Session, ans, "ok")
  /\ pc' = "batch_loop"
  /\ UNCHANGED <<mode, state, total_urls, maxFaulty, browser, context,
                 openPages, results, batch_num, batch_idx, pages, idx, result,
                 sm, established, finalized, sess, closes,
                 dp, slow, peer>>

\* try: first_page.goto(...); first_page.wait_for_load_state(...) except: log
FirstGoto ==
  /\ pc = "first_goto"
  /\ \E ans \in {"ok", "raise"} : Env(Session, ans, "ok")
  /\ pc' = "is_login_page"
  /\ UNCHANGED <<mode, state, total_urls, maxFaulty, browser, context, openPages, results,
                 batch_num, batch_idx, pages, idx, result, sm, established,
                 finalized,
                 sess, closes,
                 dp, slow, peer>>

\* a variant of IsLoginPage that logs in whatever the page shows
IsLoginPage_always ==
  /\ pc = "is_login_page"
  /\ \E ans \in {"login_page", "other_page"} :
       /\ Env(Session, ans, "login_page")
       /\ pc' = "login"
       /\ sess' = [sess EXCEPT !.form = ans]
  /\ UNCHANGED <<mode, state, total_urls, maxFaulty, browser, context,
                 openPages, results, batch_num, batch_idx, pages, idx, result,
                 sm, established, finalized, closes, dp, slow, peer>>

\* if self.is_login_page(first_page)
IsLoginPage ==
  /\ pc = "is_login_page"
  /\ \E ans \in {"login_page", "other_page"} :
       /\ Env(Session, ans, "login_page")
       /\ pc' = IF ans = "login_page" THEN "login" ELSE "first_close"
       /\ sess' = IF ans = "login_page"
                  THEN [sess EXCEPT !.form = ans]
                  ELSE [sess EXCEPT !.form = ans, !.login = "no_form"]
  /\ UNCHANGED <<mode, state, total_urls, maxFaulty, browser, context, openPages, results,
                 batch_num, batch_idx, pages, idx, result, sm, established,
                 finalized, closes,
                 dp, slow, peer>>

\* first_row = df.iloc[0], as a row counted from 1
FirstRow == 1

\* a variant of LoginReturns that never reports a failure
LoginReturns_always(ans) == TRUE

\* what login() returns: False when one of the waits after the submission
\* raised, True otherwise, whether the site took the credentials or not
LoginReturns(ans) == ans # "raise"

\* what the login step came to
LoginOutcome(ans) == IF ans = "raise" THEN "failed" ELSE ans

\* if not self.login(first_page, ...): the fields are filled and the form
\* submitted as far as they are found (every failure there is swallowed),
\* then the three waits; the site accepts the credentials, or rejects them
\* and shows the form again, or a wait raises
Login ==
  /\ pc = "login"
  /\ \E ans \in {"accepted", "rejected", "raise"} :
       /\ Env(Session, ans, "accepted")
       /\ pc' = IF LoginReturns(ans) THEN "first_close" ELSE "login_failed"
       /\ sess' = [sess EXCEPT !.login = LoginOutcome(ans),
                               !.logins = @ + 1,
                               !.cred = @ \cup {FirstRow}]
  /\ UNCHANGED <<mode, state, total_urls, maxFaulty, browser, context, openPages, results,
                 batch_num, batch_idx, pages, idx, result, sm, established,
                 finalized, closes,
                 dp, slow, peer>>

\* login failed: self.context.close(); self.browser.close(); return
LoginFailed ==
  /\ pc = "login_failed"
  /\ \E ans \in {"ok", "context_raise", "browser_raise"} :
       /\ Env(Session, ans, "ok")
       /\ CASE ans = "ok" ->
                 /\ context' = "closed" /\ browser' = "closed"
                 /\ openPages' = 0 /\ pc' = "finally"
            [] ans = "context_raise" ->
                 /\ context' = context /\ browser' = browser
                 /\ openPages' = openPages /\ pc' = "except"
            [] OTHER ->
                 /\ context' = "closed" /\ browser' = browser
                 /\ openPages' = 0 /\ pc' = "except"
       /\ sess' = [sess EXCEPT
                     !.ctx_closes = @ + 1,
                     !.br_closes = IF ans = "context_raise" THEN @ ELSE @ + 1,
                     !.close_raised = @ \/ ans # "ok",
                     !.exit = IF ans = "ok" THEN "login_failed" ELSE @]
  /\ UNCHANGED <<mode, state, total_urls, maxFaulty, results, batch_num, batch_idx, pages,
                 idx, result, sm, established, finalized, closes,
                 dp, slow, peer>>

\* first_page.close(); "Login complete - Session established"
FirstClose ==
  /\ pc = "first_close"
  /\ \E ans \in {"ok", "raise"} :
       /\ Env(Session, ans, "ok")
       /\ IF ans = "ok"
          THEN /\ openPages' = openPages - 1
               /\ established' = TRUE
               /\ pc' = "batch_loop"
          ELSE /\ openPages' = openPages
               /\ established' = established
               /\ pc' = "except"
  /\ UNCHANGED <<mode, state, total_urls, maxFaulty, browser, context, results,
                 batch_num, batch_idx, pages, idx, result, sm, finalized,
                 sess, closes,
                 dp, slow, peer>>

(***************************************************************************)
(* process_batch(): open every row of the batch, wait for the pages that   *)
(* opened, then evaluate and close them one at a time.                     *)
(***************************************************************************)
\* for batch_num in range(total_batches): ... self.process_batch(df_batch, ...)
BatchLoop ==
  /\ pc = "batch_loop"
  /\ IF batch_num < total_batches(total_urls)
     THEN pc' = "open"
     ELSE pc' = "context_close"
  /\ pages' = <<>>
  /\ batch_idx' = 0
  /\ idx' = 0
  /\ closes' = <<>>
  /\ UNCHANGED <<mode, state, total_urls, maxFaulty, faulty, browser, context, openPages,
                 results, batch_num, result, sm, established, finalized, sess,
                 dp, slow>>
  /\ peer' = PeerBatchLoop(peer, total_urls)

OpenFailed(row, n) ==
  IF mode = "toggle" THEN OpenFailedRecord(row, n) ELSE OpenFailedStatus(row, n)

\* try: page = self.context.new_page(); page.goto(...); pages.append(page)
\* except Exception as e: self.results.append({... 'error' ...}); continue
OpenPage ==
  /\ pc = "open"
  /\ batch_idx < BatchLen(batch_num, total_urls)
  /\ \E ans \in {"ok", "new_page_raise", "goto_raise"}, n \in ExcLens :
       /\ Env(RowOf(batch_num, batch_idx), ans, "ok")
       /\ peer' = PeerOpen(peer, ans)
       /\ openPages' = IF ans = "new_page_raise" THEN openPages ELSE openPages + 1
       /\ pages' = IF ans = "ok"
                   THEN Append(pages, RowOf(batch_num, batch_idx))
                   ELSE pages
       /\ results' = IF ans = "ok"
                     THEN results
                     ELSE Append(results, OpenFailed(RowOf(batch_num, batch_idx), n))
  /\ batch_idx' = batch_idx + 1
  /\ UNCHANGED <<mode, state, total_urls, maxFaulty, pc, browser, context, batch_num, idx,
                 result, sm, established, finalized,
                 sess, closes,
                 dp, slow>>

\* the opening loop is over
OpenDone ==
  /\ pc = "open"
  /\ batch_idx = BatchLen(batch_num, total_urls)
  /\ pc' = "load"
  /\ idx' = 0
  /\ UNCHANGED <<mode, state, total_urls, maxFaulty, faulty, browser, context, openPages,
                 results, batch_num, batch_idx, pages, result, sm, established,
                 finalized,
                 sess, closes,
                 dp, slow>>
  /\ peer' = PeerOpenDone(peer)

\* for page in pages: try: page.wait_for_load_state("networkidle") except: pass
\* a variant of LoadWait where a timeout is recorded as the page's outcome
LoadWait_fatal ==
  /\ pc = "load"
  /\ idx < Len(pages)
  /\ \E ans \in {"ok", "timeout"}, n \in ExcLens :
       /\ Env(pages[idx + 1], ans, "ok")
       /\ slow' = IF ans = "timeout" THEN slow \cup {pages[idx + 1]} ELSE slow
       /\ results' = IF ans = "timeout"
                     THEN Append(results, EvalFailed(pages[idx + 1], n))
                     ELSE results
  /\ idx' = idx + 1
  /\ UNCHANGED <<mode, state, total_urls, maxFaulty, pc, browser, context,
                 openPages, batch_num, batch_idx, pages, result, sm,
                 established, finalized, sess, closes, dp>>
  /\ peer' = PeerLoad(peer)

LoadWait ==
  /\ pc = "load"
  /\ idx < Len(pages)
  /\ \E ans \in {"ok", "timeout"} :
       /\ Env(pages[idx + 1], ans, "ok")
       /\ slow' = IF ans = "timeout" THEN slow \cup {pages[idx + 1]} ELSE slow
  /\ idx' = idx + 1
  /\ UNCHANGED <<mode, state, total_urls, maxFaulty, pc, browser, context, openPages,
                 results, batch_num, batch_idx, pages, result, sm, established,
                 finalized, sess, closes, dp>>
  /\ peer' = PeerLoad(peer)

LoadDone ==
  /\ pc = "load"
  /\ idx = Len(pages)
  /\ pc' = "front"
  /\ idx' = 0
  /\ UNCHANGED <<mode, state, total_urls, maxFaulty, faulty, browser, context, openPages,
                 results, batch_num, batch_idx, pages, result, sm, established,
                 finalized,
                 sess, closes,
                 dp, slow>>
  /\ peer' = PeerLoadDone(peer)

\* a variant of BringToFront without the handler of the evaluation loop
BringToFront_unhandled ==
  /\ pc = "front"
  /\ idx < Len(pages)
  /\ \E ans \in {"ok", "raise"} :
       /\ Env(pages[idx + 1], ans, "ok")
       /\ peer' = PeerFront(peer, ans)
       /\ pc' = IF ans = "ok" THEN "sm_start" ELSE "except"
  /\ UNCHANGED <<mode, state, total_urls, maxFaulty, browser, context, openPages, results,
                 batch_num, batch_idx, pages, idx, result, sm, established,
                 finalized,
                 sess, closes,
                 dp, slow>>

\* a variant of BringToFront that runs the state machine whatever
\* bring_to_front() did
BringToFront_anyway ==
  /\ pc = "front"
  /\ idx < Len(pages)
  /\ \E ans \in {"ok", "raise"} :
       /\ Env(pages[idx + 1], ans, "ok")
       /\ peer' = PeerFront(peer, ans)
       /\ sm' = [sm EXCEPT !.front = ans]
  /\ pc' = "sm_start"
  /\ UNCHANGED <<mode, state, total_urls, maxFaulty, browser, context,
                 openPages, results, batch_num, batch_idx, pages, idx, result,
                 established, finalized, sess, closes, dp, slow>>

\* try: page.bring_to_front(); page.wait_for_timeout(500); result = ...
\* except Exception as e: self.results.append({... 'error' ...})
BringToFront ==
  /\ pc = "front"
  /\ idx < Len(pages)
  /\ \E ans \in {"ok", "raise"}, n \in ExcLens :
       /\ Env(pages[idx + 1], ans, "ok")
       /\ peer' = PeerFront(peer, ans)
       /\ IF ans = "ok"
          THEN pc' = "sm_start" /\ results' = results
          ELSE /\ pc' = "close"
               /\ results' = Append(results, EvalFailed(pages[idx + 1], n))
       /\ sm' = [sm EXCEPT !.front = ans]
  /\ UNCHANGED <<mode, state, total_urls, maxFaulty, browser, context, openPages,
                 batch_num, batch_idx, pages, idx, result, established,
                 finalized, sess, closes, dp, slow>>

\* a variant of AppendResult that goes to the next page without the finally
AppendResult_noclose ==
  /\ pc = "append"
  /\ results' = Append(results, Recorded(pages[idx + 1], result))
  /\ idx' = idx + 1
  /\ result' = NoResult
  /\ sm' = IdleSm
  /\ pc' = "front"
  /\ UNCHANGED <<mode, state, total_urls, maxFaulty, faulty, browser, context,
                 openPages, batch_num, batch_idx, pages, established,
                 finalized, sess, closes,
                 dp, slow>>
  /\ peer' = PeerAppend(peer)

\* result['userid'] = userid; self.results.append(result)
AppendResult ==
  /\ pc = "append"
  /\ results' = Append(results, Recorded(pages[idx + 1], result))
  /\ pc' = "close"
  /\ UNCHANGED <<mode, state, total_urls, maxFaulty, faulty, browser, context, openPages,
                 batch_num, batch_idx, pages, idx, result, sm, established,
                 finalized,
                 sess, closes,
                 dp, slow>>
  /\ peer' = PeerAppend(peer)

\* finally: try: page.close() except Exception: pass
\* a close() that raised leaves the page closed or open
ClosePage ==
  /\ pc = "close"
  /\ \E ans \in {"ok", "raise_closed", "raise_open"} :
       /\ Env(pages[idx + 1], ans, "ok")
       /\ openPages' = IF ans = "raise_open" THEN openPages ELSE openPages - 1
  /\ closes' = Append(closes, pages[idx + 1])
  /\ slow' = slow \ {pages[idx + 1]}
  /\ idx' = idx + 1
  /\ result' = NoResult
  /\ sm' = IdleSm
  /\ pc' = "front"
  /\ UNCHANGED <<mode, state, total_urls, maxFaulty, browser, context, results, batch_num,
                 batch_idx, pages, established, finalized, sess, dp>>
  /\ peer' = PeerClose(peer)

\* the evaluation loop is over: process_batch returns
EvalDone ==
  /\ pc = "front"
  /\ idx = Len(pages)
  /\ batch_num' = batch_num + 1
  /\ pc' = "batch_loop"
  /\ UNCHANGED <<mode, state, total_urls, maxFaulty, faulty, browser, context, openPages,
                 results, batch_idx, pages, idx, result, sm, established,
                 finalized,
                 sess, closes,
                 dp, slow>>
  /\ peer' = PeerEvalDone(peer)

(***************************************************************************)
(* run(): teardown and finalization.                                       *)
(***************************************************************************)
\* self.context.close() after the last batch
ContextClose ==
  /\ pc = "context_close"
  /\ \E ans \in {"ok", "raise"} :
       /\ Env(Session, ans, "ok")
       /\ IF ans = "ok"
          THEN context' = "closed" /\ openPages' = 0 /\ pc' = "browser_close"
          ELSE context' = context /\ openPages' = openPages /\ pc' = "except"
       /\ sess' = [sess EXCEPT !.ctx_closes = @ + 1,
                               !.close_raised = @ \/ ans # "ok"]
  /\ UNCHANGED <<mode, state, total_urls, maxFaulty, browser, results, batch_num,
                 batch_idx, pages, idx, result, sm, established, finalized,
                 closes,
                 dp, slow, peer>>

\* self.browser.close() after the last batch
BrowserClose ==
  /\ pc = "browser_close"
  /\ \E ans \in {"ok", "raise"} :
       /\ Env(Session, ans, "ok")
       /\ IF ans = "ok"
          THEN browser' = "closed" /\ pc' = "finally"
          ELSE browser' = browser /\ pc' = "except"
       /\ sess' = [sess EXCEPT !.br_closes = @ + 1,
                               !.close_raised = @ \/ ans # "ok",
                               !.exit = IF ans = "ok" THEN "completed" ELSE @]
  /\ UNCHANGED <<mode, state, total_urls, maxFaulty, context, openPages, results,
                 batch_num, batch_idx, pages, idx, result, sm, established,
                 finalized, closes,
                 dp, slow, peer>>

\* a variant of Except that sets the session up again
Except_restart ==
  /\ pc = "except"
  /\ pc' = "new_context"
  /\ UNCHANGED <<mode, state, total_urls, maxFaulty, faulty, browser, context,
                 openPages, results, batch_num, batch_idx, pages, idx, result,
                 sm, established, finalized, sess, closes,
                 dp, slow, peer>>

\* except Exception as e: try: if self.context: self.context.close()
\*                             if self.browser: self.browser.close()
\*                        except Exception: pass
Except ==
  /\ pc = "except"
  /\ \E ans \in {"ok", "context_raise", "browser_raise"} :
       /\ Env(Session, ans, "ok")
       /\ ans = "context_raise" => context # "none"
       /\ ans = "browser_raise" => browser # "none"
       /\ CASE ans = "ok" ->
                 /\ context' = IF context = "none" THEN "none" ELSE "closed"
                 /\ browser' = IF browser = "none" THEN "none" ELSE "closed"
                 /\ openPages' = 0
            [] ans = "context_raise" ->
                 /\ context' = context /\ browser' = browser
                 /\ openPages' = openPages
            [] OTHER ->
                 /\ context' = IF context = "none" THEN "none" ELSE "closed"
                 /\ browser' = browser
                 /\ openPages' = IF context = "none" THEN openPages ELSE 0
       /\ sess' = [sess EXCEPT
                     !.ctx_closes = IF context = "none" THEN @ ELSE @ + 1,
                     !.br_closes = IF browser = "none" \/ ans = "context_raise"
                                   THEN @ ELSE @ + 1,
                     !.close_raised = @ \/ ans # "ok",
                     !.exit = "exception"]
  /\ pc' = "finally"
  /\ UNCHANGED <<mode, state, total_urls, maxFaulty, results, batch_num, batch_idx, pages,
                 idx, result, sm, established, finalized, closes,
                 dp, slow, peer>>

\* finally: self.save_results(); self.print_summary()
Finally ==
  /\ pc = "finally"
  /\ finalized' = finalized + 1
  /\ pc' = "done"
  /\ UNCHANGED <<mode, state, total_urls, maxFaulty, faulty, browser, context, openPages,
                 results, batch_num, batch_idx, pages, idx, result, sm,
                 established,
                 sess, closes,
                 dp, slow, peer>>

(***************************************************************************)
(* The result dicts of set_toggle_state (toggle_automation.py).            *)
(***************************************************************************)
\* 'ON' if <bool> else 'OFF'
StateName(checked) == IF checked THEN "ON" ELSE "OFF"

\* what is_checked() returned
IsChecked(ans) == ans = "checked"

\* desired_state.strip().lower() in ['on', 'off']
ValidDesired(desired_state) == desired_state \in {"ON", "OFF"}

\* desired_checked = (desired_state == 'on')
desired_checked(desired_state) == desired_state = "ON"

InitialResult ==
  [status |-> "failed", before |-> "UNKNOWN", after |-> "UNKNOWN",
   msg |-> Msg("", 0)]

SkippedResult(r) ==
  [r EXCEPT !.status = "skipped", !.msg = Msg("Invalid toggle value: ", 0)]

NotFoundAfterRetry(r) ==
  [r EXCEPT !.msg = Msg("Toggle element not found (timeout waiting for element after retry)", 0)]

NotFound(r) == [r EXCEPT !.msg = Msg("Toggle element not found", 0)]

\* result['toggle_state_before'] = 'ON' if state_before else 'OFF'
WithBefore(r, state_before) == [r EXCEPT !.before = StateName(state_before)]

\* a variant of AlreadyInDesiredState without the short-circuit
AlreadyInDesiredState_never(state_before, want) == FALSE

\* if state_before == desired_checked
AlreadyInDesiredState(state_before, want) == state_before = want

\* a variant of AlreadyResult that leaves toggle_state_after as it was
AlreadyResult_noafter(r) ==
  [r EXCEPT !.status = "success",
            !.msg = Msg("Already in desired state: ", 0)]

\* result['status'] = 'success'; result['toggle_state_after'] = ...
AlreadyResult(r) ==
  [r EXCEPT !.status = "success", !.after = r.before,
            !.msg = Msg("Already in desired state: ", 0)]

\* a variant of SaveNotFoundResult that reports a fault
SaveNotFoundResult_error(r) ==
  [r EXCEPT !.status = "error", !.msg = Msg("Save button not found", 0)]

SaveNotFoundResult(r) == [r EXCEPT !.msg = Msg("Save button not found", 0)]

\* a variant of Verified that does not compare
Verified_always(r, state_after, want) ==
  [r EXCEPT !.after = StateName(state_after), !.status = "success",
            !.msg = Msg("Toggle set to ", 0)]

\* result['toggle_state_after'] = ...; if state_after == desired_checked: ...
Verified(r, state_after, want) ==
  IF state_after = want
  THEN [r EXCEPT !.after = StateName(state_after), !.status = "success",
                 !.msg = Msg("Toggle set to ", 0)]
  ELSE [r EXCEPT !.after = StateName(state_after), !.status = "failed",
                 !.msg = Msg("Failed to set toggle to ", 0)]

\* except Exception as e: result['status'] = 'error'; result['message'] = str(e)
\* a variant of ErrorResult that writes the status as check_status does
ErrorResult_upper(r, n) == [r EXCEPT !.status = "ERROR", !.msg = Msg("", n)]

ErrorResult(r, n) == [r EXCEPT !.status = "error", !.msg = Msg("", n)]

(***************************************************************************)
(* The result dicts of check_toggle_status (check_status.py).              *)
(***************************************************************************)
InitialStatus ==
  [status |-> "UNKNOWN", before |-> "-", after |-> "-", msg |-> Msg("", 0)]

StatusNotFoundAfterRetry(r) ==
  [r EXCEPT !.status = "NOT_FOUND",
            !.msg = Msg("Toggle element not found (timeout waiting for element after retry)", 0)]

StatusNotFound(r) ==
  [r EXCEPT !.status = "NOT_FOUND",
            !.msg = Msg("Toggle element not found on page", 0)]

StatusChecked(r, is_checked) ==
  [r EXCEPT !.status = StateName(is_checked),
            !.msg = Msg("Status checked successfully", 0)]

\* except Exception as e: result['toggle_status'] = 'ERROR'; ... = str(e)
StatusError(r, n) == [r EXCEPT !.status = "ERROR", !.msg = Msg("", n)]

(***************************************************************************)
(* set_toggle_state / check_toggle_status, step by step.  The two share    *)
(* the steps up to the first read of the control.                          *)
(***************************************************************************)
\* the handler of the whole sequence, then return result
Raised(n) ==
  /\ result' = IF mode = "toggle" THEN ErrorResult(result, n)
                                  ELSE StatusError(result, n)
  /\ pc' = "append"

Frame == UNCHANGED <<mode, state, total_urls, maxFaulty, browser, context, openPages,
                     results, batch_num, batch_idx, pages, idx, established,
                     finalized,
                 sess, closes,
                 dp, slow, peer>>

\* result = {...}; the validation of desired_state
SmStart ==
  /\ pc = "sm_start"
  /\ sm' = [sm EXCEPT !.ran = TRUE]
  /\ IF mode = "toggle"
     THEN IF ValidDesired(state)
          THEN result' = InitialResult /\ pc' = "sm_settle"
          ELSE result' = SkippedResult(InitialResult) /\ pc' = "append"
     ELSE result' = InitialStatus /\ pc' = "sm_settle"
  /\ faulty' = faulty
  /\ Frame

\* try: page.wait_for_load_state("networkidle") except: log
\* page.wait_for_timeout(3000)
Settle ==
  /\ pc = "sm_settle"
  /\ \E ans \in {"ok", "idle_timeout", "raise"}, n \in ExcLens :
       /\ Env(pages[idx + 1], ans, "ok")
       /\ IF ans = "raise"
          THEN Raised(n) /\ sm' = [sm EXCEPT !.raised = TRUE]
          ELSE result' = result /\ pc' = "sm_dismiss_load" /\ sm' = sm
  /\ Frame

DismissSites ==
  {"sm_dismiss_load", "sm_dismiss_retry", "sm_dismiss_click", "sm_dismiss_save"}

\* where control goes after the call of dismiss_popups at site p
AfterDismiss(p) ==
  CASE p = "sm_dismiss_load" -> "sm_wait"
    [] p = "sm_dismiss_retry" -> "sm_wait"
    [] p = "sm_dismiss_click" -> "sm_click"
    [] OTHER -> "sm_save"

\* self.dismiss_popups(page): returns True or False, never raises;
\* after the call in the retry branch the loop goes to its next attempt
DismissPopups ==
  /\ pc \in DismissSites
  /\ \E ans \in {"nothing", "dismissed"} : Env(pages[idx + 1], ans, "nothing")
  /\ sm' = [sm EXCEPT !.dismissals = @ + 1,
                      !.attempt = IF pc = "sm_dismiss_retry" THEN @ + 1 ELSE @,
                      !.events = Append(@, "dismiss")]
  /\ pc' = AfterDismiss(pc)
  /\ result' = result
  /\ Frame

NotFoundAfterRetryOf(r) ==
  IF mode = "toggle" THEN NotFoundAfterRetry(r) ELSE StatusNotFoundAfterRetry(r)

\* a variant of LastAttempt for a loop that does not end
LastAttempt_never(attempt) == FALSE

\* attempt is the last value of range(2)
LastAttempt(attempt) == attempt + 1 = NumAttempts

\* for attempt in range(2): try: page.wait_for_selector(...); toggle_found = True
\*   except Exception: if attempt == 0: reload ... else: log
\* after the loop: if not toggle_found: ... return result
WaitForToggle ==
  /\ pc = "sm_wait"
  /\ \E ans \in {"ok", "timeout"} :
       /\ Env(pages[idx + 1], ans, "ok")
       /\ IF ans = "ok"
          THEN /\ sm' = [sm EXCEPT !.waits = @ + 1, !.toggle_found = TRUE]
               /\ pc' = "sm_locate"
               /\ result' = result
          ELSE IF sm.attempt = 0
               THEN /\ sm' = [sm EXCEPT !.waits = @ + 1]
                    /\ pc' = "sm_reload" /\ result' = result
               ELSE IF LastAttempt(sm.attempt)
                    THEN /\ sm' = [sm EXCEPT !.waits = @ + 1]
                         /\ pc' = "append"
                         /\ result' = NotFoundAfterRetryOf(result)
                    ELSE /\ sm' = [sm EXCEPT !.waits = @ + 1,
                                             !.attempt = @ + 1]
                         /\ pc' = "sm_wait" /\ result' = result
  /\ Frame

\* a variant of Reload that goes on to the second attempt when reload raised
Reload_swallow ==
  /\ pc = "sm_reload"
  /\ \E ans \in {"ok", "raise"} :
       /\ Env(pages[idx + 1], ans, "ok")
       /\ sm' = [sm EXCEPT !.reloads = @ + 1, !.raised = (ans = "raise")]
       /\ pc' = "sm_dismiss_retry"
       /\ result' = result
  /\ Frame

\* page.reload(wait_until="networkidle"); page.wait_for_timeout(3000)
Reload ==
  /\ pc = "sm_reload"
  /\ \E ans \in {"ok", "raise"}, n \in ExcLens :
       /\ Env(pages[idx + 1], ans, "ok")
       /\ IF ans = "ok"
          THEN /\ sm' = [sm EXCEPT !.reloads = @ + 1]
               /\ pc' = "sm_dismiss_retry"
               /\ result' = result
          ELSE /\ sm' = [sm EXCEPT !.reloads = @ + 1, !.raised = TRUE]
               /\ Raised(n)
  /\ Frame

NotFoundOf(r) == IF mode = "toggle" THEN NotFound(r) ELSE StatusNotFound(r)

\* toggle = page.locator(toggle_selector).first; toggle.count()
Locate ==
  /\ pc = "sm_locate"
  /\ \E ans \in {"present", "absent", "raise"}, n \in ExcLens :
       /\ Env(pages[idx + 1], ans, "present")
       /\ CASE ans = "present" ->
                 /\ sm' = [sm EXCEPT !.count = "present"]
                 /\ pc' = "sm_read" /\ result' = result
            [] ans = "absent" ->
                 /\ sm' = [sm EXCEPT !.count = "absent"]
                 /\ pc' = "append" /\ result' = NotFoundOf(result)
            [] OTHER ->
                 /\ sm' = [sm EXCEPT !.raised = TRUE]
                 /\ Raised(n)
  /\ Frame

\* a variant of ReadBefore in which check_toggle_status goes on as
\* set_toggle_state does
ReadBefore_mutating ==
  /\ pc = "sm_read"
  /\ \E ans \in {"checked", "unchecked", "raise"}, n \in ExcLens :
       /\ Env(pages[idx + 1], ans, "unchecked")
       /\ IF ans = "raise"
          THEN /\ sm' = [sm EXCEPT !.reads = @ + 1, !.raised = TRUE]
               /\ Raised(n)
          ELSE /\ sm' = [sm EXCEPT !.reads = @ + 1, !.seen = ans,
                                   !.events = Append(@, "read")]
               /\ IF AlreadyInDesiredState(IsChecked(ans), desired_checked(state))
                  THEN /\ result' = AlreadyResult(WithBefore(result, IsChecked(ans)))
                       /\ pc' = "append"
                  ELSE /\ result' = WithBefore(result, IsChecked(ans))
                       /\ pc' = "sm_dismiss_click"
  /\ Frame

\* state_before = toggle.is_checked() and the comparison with the desired
\* state; is_checked = toggle.is_checked() in check_toggle_status
ReadBefore ==
  /\ pc = "sm_read"
  /\ \E ans \in {"checked", "unchecked", "raise"}, n \in ExcLens :
       /\ Env(pages[idx + 1], ans, "unchecked")
       /\ IF ans = "raise"
          THEN /\ sm' = [sm EXCEPT !.reads = @ + 1, !.raised = TRUE]
               /\ Raised(n)
          ELSE /\ sm' = [sm EXCEPT !.reads = @ + 1, !.seen = ans,
                                   !.events = Append(@, "read")]
               /\ IF mode = "check"
                  THEN /\ result' = StatusChecked(result, IsChecked(ans))
                       /\ pc' = "append"
                  ELSE IF AlreadyInDesiredState(IsChecked(ans), desired_checked(state))
                       THEN /\ result' = AlreadyResult(WithBefore(result, IsChecked(ans)))
                            /\ pc' = "append"
                       ELSE /\ result' = WithBefore(result, IsChecked(ans))
                            /\ pc' = "sm_dismiss_click"
  /\ Frame

\* try: page.click(toggle_selector, timeout=5000)
ClickToggle ==
  /\ pc = "sm_click"
  /\ \E ans \in {"ok", "raise"} :
       /\ Env(pages[idx + 1], ans, "ok")
       /\ IF ans = "ok"
          THEN /\ sm' = [sm EXCEPT !.clickTries = @ + 1, !.clicks = @ + 1,
                                   !.events = Append(@, "toggle_click")]
               /\ pc' = "sm_click_wait"
          ELSE /\ sm' = [sm EXCEPT !.clickTries = @ + 1,
                                   !.events = Append(@, "toggle_click_raised")]
               /\ pc' = "sm_force_click"
  /\ result' = result
  /\ Frame

\* except Exception: page.locator(toggle_selector).first.click(force=True)
ForceClick ==
  /\ pc = "sm_force_click"
  /\ \E ans \in {"ok", "raise"}, n \in ExcLens :
       /\ Env(pages[idx + 1], ans, "ok")
       /\ IF ans = "ok"
          THEN /\ sm' = [sm EXCEPT !.clickTries = @ + 1, !.clicks = @ + 1,
                                   !.events = Append(@, "toggle_force_click")]
               /\ pc' = "sm_click_wait" /\ result' = result
          ELSE /\ sm' = [sm EXCEPT !.clickTries = @ + 1, !.raised = TRUE]
               /\ Raised(n)
  /\ Frame

\* a variant of ClickWait that goes to the save selectors directly
ClickWait_nodismiss ==
  /\ pc = "sm_click_wait"
  /\ \E ans \in {"ok", "raise"}, n \in ExcLens :
       /\ Env(pages[idx + 1], ans, "ok")
       /\ IF ans = "ok"
          THEN /\ sm' = [sm EXCEPT !.events = Append(@, "settle")]
               /\ pc' = "sm_save" /\ result' = result
          ELSE sm' = [sm EXCEPT !.raised = TRUE] /\ Raised(n)
  /\ Frame

\* page.wait_for_timeout(500)
ClickWait ==
  /\ pc = "sm_click_wait"
  /\ \E ans \in {"ok", "raise"}, n \in ExcLens :
       /\ Env(pages[idx + 1], ans, "ok")
       /\ IF ans = "ok"
          THEN /\ sm' = [sm EXCEPT !.events = Append(@, "settle")]
               /\ pc' = "sm_dismiss_save" /\ result' = result
          ELSE sm' = [sm EXCEPT !.raised = TRUE] /\ Raised(n)
  /\ Frame

\* a variant of SaveSelector whose loop goes on after a click that returned
SaveSelector_nobreak ==
  /\ pc = "sm_save"
  /\ sm.sel < NumSaveSelectors
  /\ \E ans \in {"clicked", "forced", "absent", "count_raise", "click_raise"} :
       /\ Env(pages[idx + 1], ans, "clicked")
       /\ IF ans \in {"clicked", "forced"}
          THEN /\ sm' = [sm EXCEPT !.sel = @ + 1, !.saveTries = @ + 1,
                                   !.saveClicks = @ + 1, !.saved = TRUE,
                                   !.events = Append(@, "save_click")]
               /\ pc' = IF sm.sel + 1 < NumSaveSelectors
                        THEN "sm_save" ELSE "sm_post_wait"
          ELSE /\ sm' = [sm EXCEPT !.sel = @ + 1,
                                   !.saveTries = IF ans = "click_raise"
                                                 THEN @ + 1 ELSE @]
               /\ pc' = "sm_save"
  /\ result' = result
  /\ Frame

\* for selector in save_selectors: try: if page.locator(selector).count() > 0:
\*   try: page.click(selector) except: page.locator(selector).first.click(force=True)
\*   saved = True; break
\* except Exception: continue
SaveSelector ==
  /\ pc = "sm_save"
  /\ sm.sel < NumSaveSelectors
  /\ \E ans \in {"clicked", "forced", "absent", "count_raise", "click_raise"} :
       /\ Env(pages[idx + 1], ans, "clicked")
       /\ IF ans \in {"clicked", "forced"}
          THEN /\ sm' = [sm EXCEPT !.sel = @ + 1, !.saveTries = @ + 1,
                                   !.saveClicks = @ + 1, !.saved = TRUE,
                                   !.events = Append(@, "save_click")]
               /\ pc' = "sm_post_wait"
          ELSE /\ sm' = [sm EXCEPT !.sel = @ + 1,
                                   !.saveTries = IF ans = "click_raise"
                                                 THEN @ + 1 ELSE @]
               /\ pc' = "sm_save"
  /\ result' = result
  /\ Frame

\* if not saved: result['message'] = 'Save button not found'; return result
SaveNotFound ==
  /\ pc = "sm_save"
  /\ sm.sel = NumSaveSelectors
  /\ result' = SaveNotFoundResult(result)
  /\ pc' = "append"
  /\ sm' = sm
  /\ faulty' = faulty
  /\ Frame

\* page.wait_for_load_state("networkidle", timeout=10000)
\* page.wait_for_timeout(3000)
PostSaveWait ==
  /\ pc = "sm_post_wait"
  /\ \E ans \in {"ok", "raise"}, n \in ExcLens :
       /\ Env(pages[idx + 1], ans, "ok")
       /\ IF ans = "ok"
          THEN sm' = sm /\ pc' = "sm_reread" /\ result' = result
          ELSE sm' = [sm EXCEPT !.raised = TRUE] /\ Raised(n)
  /\ Frame

\* the answer of is_checked() when the change went through
NominalAfter == IF desired_checked(state) THEN "checked" ELSE "unchecked"

\* state_after = page.locator(toggle_selector).first.is_checked()
ReRead ==
  /\ pc = "sm_reread"
  /\ \E ans \in {"checked", "unchecked", "raise"}, n \in ExcLens :
       /\ Env(pages[idx + 1], ans, NominalAfter)
       /\ IF ans = "raise"
          THEN /\ sm' = [sm EXCEPT !.reads = @ + 1, !.raised = TRUE]
               /\ Raised(n)
          ELSE /\ sm' = [sm EXCEPT !.reads = @ + 1, !.reseen = ans]
               /\ result' = Verified(result, IsChecked(ans), desired_checked(state))
               /\ pc' = "append"
  /\ Frame

(***************************************************************************)
(* dismiss_popups, step by step: one call, made on the page of the only    *)
(* row of a sheet right after the page has settled.  In the steps of the   *)
(* state machine above the call is the single step DismissPopups.          *)
(***************************************************************************)
\* the state in which set_toggle_state / check_toggle_status calls
\* self.dismiss_popups(page) for the first time
InitDismiss ==
  /\ \/ mode = "toggle" /\ state \in {"ON", "OFF"} /\ result = InitialResult
     \/ mode = "check" /\ state = "-" /\ result = InitialStatus
  /\ total_urls = 1
  /\ maxFaulty = Unlimited
  /\ faulty = {}
  /\ pc = "dp_select"
  /\ browser = "open"
  /\ context = "open"
  /\ openPages = 1
  /\ results = <<>>
  /\ batch_num = 0
  /\ batch_idx = 1
  /\ pages = <<1>>
  /\ idx = 0
  /\ sm = [IdleSm EXCEPT !.ran = TRUE, !.front = "ok"]
  /\ established = TRUE
  /\ finalized = 0
  /\ sess \in {[NoSession EXCEPT !.contexts = 1, !.form = "other_page",
                                 !.login = "no_form"],
                [NoSession EXCEPT !.contexts = 1, !.form = "login_page",
                                 !.login = "accepted", !.logins = 1,
                                 !.cred = {FirstRow}]}
  /\ closes = <<>>
  /\ dp = IdleDp
  /\ slow \in {{}, {1}}
  /\ peer = [PeerStart EXCEPT !.pc = "evaluate", !.contexts = 1,
                              !.batch_idx = 1, !.pages = <<1>>]

DpFrame ==
  UNCHANGED <<mode, state, total_urls, maxFaulty, browser, context, openPages,
              results, batch_num, batch_idx, pages, idx, result, sm,
              established, finalized, sess, closes, slow, peer>>

\* for selector in pendo_dismiss_selectors: try:
\*   close_btn = page.locator(selector).first
\*   if close_btn.count() > 0 and close_btn.is_visible():
\*     close_btn.click(force=True); page.wait_for_timeout(500); return True
\* except Exception: continue
\* the answers: no visible match; locator, count, is_visible or click raised;
\* the click and the wait returned; the click returned and the wait raised
DpSelector ==
  /\ pc = "dp_select"
  /\ dp.k < NumDismissSelectors
  /\ \E ans \in {"absent", "raise", "clicked", "clicked_wait_raise"} :
       /\ Env(pages[idx + 1], ans, "absent")
       /\ CASE ans = "clicked" ->
                 /\ dp' = [dp EXCEPT !.k = @ + 1, !.clicks = @ + 1,
                                     !.ret = "true"]
                 /\ pc' = "dp_return"
            [] ans = "clicked_wait_raise" ->
                 /\ dp' = [dp EXCEPT !.k = @ + 1, !.clicks = @ + 1]
                 /\ pc' = "dp_select"
            [] OTHER ->
                 /\ dp' = [dp EXCEPT !.k = @ + 1]
                 /\ pc' = "dp_select"
  /\ DpFrame

\* the loop over the selectors is over
DpSelectorsDone ==
  /\ pc = "dp_select"
  /\ dp.k = NumDismissSelectors
  /\ pc' = "dp_escape"
  /\ UNCHANGED <<faulty, dp>>
  /\ DpFrame

\* try: page.keyboard.press("Escape"); page.wait_for_timeout(300)
\* except Exception: pass
DpEscape ==
  /\ pc = "dp_escape"
  /\ \E ans \in {"ok", "press_raise", "wait_raise"} :
       /\ Env(pages[idx + 1], ans, "ok")
       /\ dp' = [dp EXCEPT !.escape = IF ans = "press_raise" THEN "raised"
                                                              ELSE "sent"]
  /\ pc' = "dp_remove"
  /\ DpFrame

\* try: page.evaluate(...) except Exception: pass; return False
DpRemove ==
  /\ pc = "dp_remove"
  /\ \E ans \in {"ok", "raise"} :
       /\ Env(pages[idx + 1], ans, "ok")
       /\ dp' = [dp EXCEPT !.removal = IF ans = "ok" THEN "done" ELSE "raised",
                           !.ret = "false"]
  /\ pc' = "dp_return"
  /\ DpFrame

NextDismiss == DpSelector \/ DpSelectorsDone \/ DpEscape \/ DpRemove

(***************************************************************************)
(* Specifications.                                                         *)
(***************************************************************************)
Next ==
  \/ Start \/ Launch \/ NoBrowser \/ NewContext \/ FirstNewPage \/ FirstGoto
  \/ IsLoginPage \/ Login \/ LoginFailed \/ FirstClose
  \/ BatchLoop \/ OpenPage \/ OpenDone \/ LoadWait \/ LoadDone
  \/ BringToFront \/ AppendResult \/ ClosePage \/ EvalDone
  \/ SmStart \/ Settle \/ DismissPopups \/ WaitForToggle \/ Reload \/ Locate
  \/ ReadBefore \/ ClickToggle \/ ForceClick \/ ClickWait \/ SaveSelector
  \/ SaveNotFound \/ PostSaveWait \/ ReRead
  \/ ContextClose \/ BrowserClose \/ Except \/ Finally

\* any sheet of at most MaxTasks rows, any behaviour of the browser
Spec == Init /\ [][Next]_vars

\* sheets of more than one batch, at most MaxFaulty faulty subjects
SpecBatch == InitBatch /\ [][Next]_vars

\* a sheet of at most MaxLiveTasks rows, any behaviour of the browser
InitLive == \E n \in 1..MaxLiveTasks : InitRun(n, Unlimited)

\* the thread of control always takes its next step: every call into the
\* browser returns or raises, every wait is given a timeout
SpecLive == InitLive /\ [][Next]_vars /\ WF_vars(Next)

\* one call of dismiss_popups, any behaviour of the page
SpecDismiss == InitDismiss /\ [][NextDismiss]_vars

(***************************************************************************)
(* Properties.                                                             *)
(***************************************************************************)
LastResult == results[Len(results)]

\* the state machine has returned its result for the page being evaluated
Returned == sm.ran /\ pc \in {"append", "close"}

\* statuses of the two scripts that report a fault
Faults == {"error", "ERROR"}

\* statuses of the two scripts that are not a success
Failures == {"failed", "error", "ERROR", "NOT_FOUND"}

OutcomesOf(t) == {i \in DOMAIN results : results[i].task = t}

\* C1: in a run that got past session establishment, the number of outcomes
\* at finalization is the number of tasks.
C1_OutcomePerTask ==
  (established /\ pc \in {"finally", "done"}) => Len(results) = total_urls

\* a finished run of two batches in which a page failed to open
C1_Witness ==
  /\ established /\ pc = "done"
  /\ total_urls > BATCH_SIZE
  /\ \E i \in DOMAIN results : results[i].msg.kind = "Failed to open page: "
  /\ \E i \in DOMAIN results : results[i].status \in {"success", "ON", "OFF"}

\* C2: the outcomes are recorded in task order.
C2_TaskOrder ==
  \A i, j \in DOMAIN results : i < j => results[i].task < results[j].task

\* C3: at most BATCH_SIZE pages of the context are open at any time.
C3_BatchIsolation == openPages <= BATCH_SIZE

\* C4: while batch n+1 opens its pages, no page of an earlier batch is open:
\* the open pages are pages of the rows the opening loop has gone through.
C4_BatchesDoNotOverlap ==
  (pc = "open" /\ batch_num >= 1) => openPages <= batch_idx

\* C5: when the control was found and read in the desired state, nothing was
\* clicked, no save control was looked up, and the result is success with
\* toggle_state_after equal to toggle_state_before.
C5_Idempotent ==
  (mode = "toggle" /\ sm.ran /\ sm.seen # "?"
     /\ StateName(IsChecked(sm.seen)) = state) =>
    /\ pc \in {"append", "close"}
    /\ sm.clickTries = 0 /\ sm.clicks = 0
    /\ sm.sel = 0 /\ sm.saveTries = 0 /\ sm.saveClicks = 0
    /\ result.status = "success"
    /\ result.before = state
    /\ result.after = result.before
    /\ pc = "close" => LastResult = Recorded(pages[idx + 1], result)

\* a page whose control already shows the desired state has been recorded
C5_Witness ==
  /\ mode = "toggle" /\ pc = "close" /\ sm.ran
  /\ sm.seen # "?" /\ StateName(IsChecked(sm.seen)) = state

\* the control was not located after the retry: the wait timed out, the page
\* was reloaded and the second wait timed out too
NotLocated ==
  sm.ran /\ sm.waits = 2 /\ sm.reloads = 1 /\ ~sm.toggle_found

\* C6: a task whose control is not located is recorded as NOT_FOUND or ERROR,
\* never failed or success, and nothing was clicked for it.
C6_NotFoundOutcome ==
  (pc = "close" /\ NotLocated) =>
    /\ LastResult.status \in {"NOT_FOUND", "ERROR", "error"}
    /\ sm.clickTries = 0 /\ sm.saveTries = 0

\* C7: the control was clicked and the loop over the save selectors ended
\* without a click: the result is failed, toggle_state_before is what was
\* read, toggle_state_after is UNKNOWN, every selector was tried at most once
\* and the control was not read again.
C7_SaveMissing ==
  (mode = "toggle" /\ Returned /\ sm.clicks > 0
     /\ sm.sel = NumSaveSelectors /\ sm.saveClicks = 0) =>
    /\ result.status = "failed"
    /\ result.before = StateName(IsChecked(sm.seen))
    /\ result.before \in {"ON", "OFF"}
    /\ result.after = "UNKNOWN"
    /\ result.msg.kind = "Save button not found"
    /\ sm.saveTries <= NumSaveSelectors
    /\ sm.reads = 1 /\ sm.reseen = "?"
    /\ pc = "close" => LastResult = Recorded(pages[idx + 1], result)

\* recorded: the control was clicked, a save control matched and its clicks
\* raised, none was clicked
C7_Witness ==
  /\ mode = "toggle" /\ pc = "close" /\ sm.ran
  /\ sm.clicks > 0 /\ sm.sel = NumSaveSelectors
  /\ sm.saveTries > 0 /\ sm.saveClicks = 0

\* C8: once the control was read again after the save, the result is success
\* exactly when what was read is the desired state and failed otherwise, and
\* toggle_state_before and toggle_state_after are both ON or OFF.
C8_Verdict ==
  (mode = "toggle" /\ sm.ran /\ sm.reseen # "?") =>
    /\ pc \in {"append", "close"}
    /\ sm.clicks = 1 /\ sm.saveClicks = 1
    /\ result.status = IF StateName(IsChecked(sm.reseen)) = state
                       THEN "success" ELSE "failed"
    /\ result.before = StateName(IsChecked(sm.seen))
    /\ result.after = StateName(IsChecked(sm.reseen))
    /\ {result.before, result.after} \subseteq {"ON", "OFF"}
    /\ pc = "close" => LastResult = Recorded(pages[idx + 1], result)

\* recorded: the change was saved and the control still shows the old state
C8_Witness ==
  /\ mode = "toggle" /\ pc = "close" /\ sm.ran /\ sm.reseen # "?"
  /\ LastResult.status = "failed"
  /\ LastResult.before = LastResult.after

\* C9: an exception raised by a step of the state machine is recorded with a
\* fault status and a message that carries at most TruncLen characters of
\* the exception text.
C9_Truncated ==
  (pc = "close" /\ sm.ran /\ sm.raised) =>
    /\ LastResult.status \in Faults
    /\ LastResult.msg.exc <= TruncLen

\* C10: a failure of a task never aborts the batch or the run: the handler
\* of run() is not entered while batches remain, and once the batches are
\* over every row of the sheet has exactly one outcome.
C10_NoAbort ==
  /\ (established /\ pc = "except") => batch_num = total_batches(total_urls)
  /\ (established /\ pc \in {"context_close", "browser_close", "finally", "done"}) =>
       \A t \in 1..total_urls : Cardinality(OutcomesOf(t)) = 1

\* a finished run in which the second row failed and every row, those of the
\* next batch included, has its outcome
C10_Witness ==
  /\ established /\ pc = "done"
  /\ total_urls > BATCH_SIZE
  /\ \E i \in DOMAIN results : results[i].task = 2 /\ results[i].status \in Failures
  /\ \A t \in 1..total_urls : OutcomesOf(t) # {}

\* positions inside set_toggle_state / check_toggle_status
SmPcs ==
  {"sm_start", "sm_settle", "sm_wait", "sm_reload", "sm_locate", "sm_read",
   "sm_click", "sm_force_click", "sm_click_wait", "sm_save", "sm_post_wait",
   "sm_reread"} \cup DismissSites

\* positions inside the evaluation of one page, its close included
EvalPcs == SmPcs \cup {"append", "close"}

\* positions inside process_batch
BatchPcs == {"open", "load", "front"} \cup EvalPcs

\* a row of the sheet was opened, evaluated or recorded in a batch
TaskTouched ==
  \/ pc \in BatchPcs
  \/ batch_num > 0 \/ batch_idx > 0
  \/ pages # <<>> \/ results # <<>>

\* C11: when login() returned without an exception and the login form is
\* still shown (the credentials were rejected), no row is opened or evaluated
\* in a batch, the results stay empty and the finalization runs.
C11_RejectedLoginAborts ==
  sess.login = "rejected" =>
    /\ ~TaskTouched
    /\ pc = "done" => finalized = 1

\* C12: when login() returned False, no batch is executed, no page of a row
\* is opened, the results stay empty, the run leaves through the return of
\* the login branch or through the handler, finalization runs once, and the
\* context and the browser are each closed by one call of close() when no
\* call of close() raised.
C12_LoginFailureFatal ==
  sess.login = "failed" =>
    /\ pc \in {"login_failed", "except", "finally", "done"}
    /\ ~TaskTouched /\ ~established
    /\ openPages <= 1
    /\ pc \in {"finally", "done"} =>
         /\ sess.exit \in {"login_failed", "exception"}
         /\ sess.ctx_closes >= 1
         /\ ~sess.close_raised =>
              /\ sess.exit = "login_failed"
              /\ context = "closed" /\ browser = "closed" /\ openPages = 0
              /\ sess.ctx_closes = 1 /\ sess.br_closes = 1
    /\ pc = "done" => finalized = 1

\* a finished run whose login() returned False and whose closes went through
C12_Witness ==
  /\ sess.login = "failed" /\ pc = "done"
  /\ ~sess.close_raised /\ sess.exit = "login_failed"

\* C13: a run with at least one row finalizes exactly once on every path:
\* finalization has not run before the end, has run once at the end, every
\* way out of the try block leads to it, and the run stops nowhere else.
C13_FinalizedOnce ==
  total_urls > 0 =>
    /\ finalized = IF pc = "done" THEN 1 ELSE 0
    /\ pc = "done" => sess.exit # "none"
    /\ sess.exit # "none" => pc \in {"finally", "done"}
    /\ pc = "finally" => sess.exit # "none"
    /\ pc # "done" => ENABLED Next

\* a run that was finalized after an exception escaped a batch phase with
\* outcomes already recorded
C13_Witness ==
  /\ pc = "done" /\ finalized = 1
  /\ sess.exit = "exception" /\ established /\ results # <<>>

\* C14: at the end of a run in which a browser was launched, close() was
\* called on the browser, and on the context if one was created.
C14_TeardownAttempted ==
  (pc = "done" /\ browser # "none") =>
    /\ sess.br_closes >= 1
    /\ sess.contexts > 0 => sess.ctx_closes >= 1

\* C15: when none of the three launches succeeded, no context is created,
\* no page is opened, no login is attempted, no outcome is recorded, and the
\* run goes to its finalization.
C15_NoEngine ==
  (pc = "no_browser" \/ sess.exit = "no_browser") =>
    /\ pc \in {"no_browser", "finally", "done"}
    /\ browser = "none" /\ context = "none" /\ sess.contexts = 0
    /\ openPages = 0 /\ sess.login = "none" /\ ~established
    /\ ~TaskTouched
    /\ sess.ctx_closes = 0 /\ sess.br_closes = 0
    /\ pc = "done" => finalized = 1

\* a finished run in which no engine could be launched
C15_Witness ==
  /\ pc = "done" /\ sess.exit = "no_browser" /\ finalized = 1

\* C16: no row is opened, evaluated or recorded in a batch before the login
\* step on the first row has finished: is_login_page() returned False or
\* login() returned True, and the first page was closed.
C16_AuthBeforeTasks ==
  TaskTouched =>
    /\ sess.login \in {"no_form", "accepted", "rejected"}
    /\ established

\* the state machine starts on a page after a login that was gone through
C16_Witness ==
  /\ pc = "sm_start" /\ sess.login = "accepted" /\ established

\* C17: new_context() returns at most once in a run, and while a batch is
\* processed that one context exists, is open and has not been closed.
C17_SingleContext ==
  /\ sess.contexts <= 1
  /\ pc \in BatchPcs =>
       /\ sess.contexts = 1 /\ context = "open" /\ sess.ctx_closes = 0

\* the second batch opens a page after a row of the first batch failed
C17_Witness ==
  /\ pc = "open" /\ batch_num = 1 /\ batch_idx > 0
  /\ \E i \in DOMAIN results : results[i].status \in Failures
  /\ sess.contexts = 1 /\ context = "open"

\* the first row of the sheet is among the pages of the batch or has an
\* outcome
FirstTaskDispatched ==
  \/ \E i \in DOMAIN pages : pages[i] = 1
  \/ OutcomesOf(1) # {}

\* C18 as amended: in both scripts the batches are cut from the whole sheet
\* from its first row: once the first batch has gone through its first
\* row, the first row (the one used for the login) is among the pages of the
\* batch or has an outcome, and the page being evaluated is never that of a
\* row that is not of the sheet.
C18_AllRowsBatched ==
  /\ (batch_idx > 0 \/ batch_num > 0) => FirstTaskDispatched
  /\ \A i \in DOMAIN pages : pages[i] \in 1..total_urls
  /\ \A i \in DOMAIN results : results[i].task \in 1..total_urls

\* set_toggle_state has clicked the control on the page of the first row
C18_Witness ==
  /\ mode = "toggle" /\ pc = "close" /\ sm.ran
  /\ pages[idx + 1] = 1 /\ sm.clicks > 0
  /\ LastResult.task = 1

\* C18 as stated: in the mutating script the first row is not dispatched in
\* any batch and gets no outcome.
C18_FirstTaskSkipped ==
  mode = "toggle" =>
    /\ \A i \in DOMAIN pages : pages[i] # 1
    /\ OutcomesOf(1) = {}

\* C19: the status checker never clicks the control or a save control and
\* never looks one up, and a control that was found and read is reported
\* with the state that was read, ON or OFF.
C19_InspectOnly ==
  mode = "check" =>
    /\ sm.clickTries = 0 /\ sm.clicks = 0
    /\ sm.sel = 0 /\ sm.saveTries = 0 /\ sm.saveClicks = 0
    /\ pc \notin {"sm_dismiss_click", "sm_click", "sm_force_click",
                  "sm_click_wait", "sm_dismiss_save", "sm_save",
                  "sm_post_wait", "sm_reread"}
    /\ (sm.ran /\ sm.seen # "?") =>
         /\ pc \in {"append", "close"}
         /\ result.status = StateName(IsChecked(sm.seen))
         /\ result.status \in {"ON", "OFF"}
         /\ pc = "close" => LastResult = Recorded(pages[idx + 1], result)

\* the status checker has recorded a control it read as checked
C19_Witness ==
  /\ mode = "check" /\ pc = "close" /\ sm.ran
  /\ sm.seen = "checked" /\ LastResult.status = "ON"

\* C20: the pages that were closed are the pages of the batch evaluated so
\* far, each once and in order: none before the batch is evaluated, the page
\* being evaluated not yet, all of them when the batch is over; whatever a
\* call of close() answers, the batch goes on to its next page.
C20_CloseOncePerPage ==
  /\ pc \in {"open", "load"} => closes = <<>>
  /\ pc \in {"front"} \cup EvalPcs =>
       /\ idx <= Len(pages)
       /\ closes = SubSeq(pages, 1, idx)
  /\ (pc = "batch_loop" /\ batch_num > 0) => closes = pages
  /\ (established /\ pc = "except") => batch_num = total_batches(total_urls)

\* a batch of two pages is over: bring_to_front raised for one, the state
\* machine raised for the other, both were closed
C20_Witness ==
  /\ pc = "batch_loop" /\ batch_num > 0
  /\ Len(pages) = 2 /\ closes = pages
  /\ \E i \in DOMAIN results :
       /\ results[i].msg.kind = "Error: "
  /\ \E i \in DOMAIN results :
       /\ results[i].msg.kind = "" /\ results[i].status \in Faults

\* C21: dismiss_popups stops at the first click that returned and returns
\* True without sending Escape or removing nodes; only when no click
\* returned does it send Escape, then attempt the removal, and return False.
C21_DismissOrder ==
  /\ dp.clicks > 0 => pc = "dp_return"
  /\ pc = "dp_return" =>
       /\ dp.ret \in {"true", "false"}
       /\ dp.ret = "true" <=> dp.clicks > 0
       /\ dp.clicks > 0 =>
            dp.clicks = 1 /\ dp.escape = "none" /\ dp.removal = "none"
       /\ dp.clicks = 0 => dp.escape # "none" /\ dp.removal # "none"

\* C23: per task the wait for the control is made at most twice and the
\* page is reloaded at most once, the reload only after the first wait
\* failed and before the second; after the second failed wait nothing more
\* is waited for or reloaded and the result says the control was not found.
C23_OneRetry ==
  /\ sm.waits <= NumAttempts /\ sm.reloads <= 1
  /\ sm.reloads = 1 => sm.waits >= 1
  /\ sm.waits = 2 => sm.reloads = 1
  /\ pc = "sm_reload" => sm.waits = 1 /\ sm.reloads = 0 /\ ~sm.toggle_found
  /\ NotLocated =>
       /\ pc \in {"append", "close"}
       /\ result.msg.kind =
            "Toggle element not found (timeout waiting for element after retry)"
       /\ result.status \in {"failed", "NOT_FOUND"}
       /\ sm.count = "?" /\ sm.reads = 0

\* the second wait failed after the reload and the result was recorded
C23_Witness ==
  /\ NotLocated /\ pc = "close"
  /\ LastResult.msg.kind =
       "Toggle element not found (timeout waiting for element after retry)"

\* C22: every run with at least one row eventually runs its finalization.
C22_ReachesFinalization == (total_urls > 0) ~> (pc = "done" /\ finalized = 1)

\* a run was finalized after the retry loop of a page ended without the
\* control
C22_Witness ==
  /\ pc = "done" /\ finalized = 1 /\ sess.exit = "completed"
  /\ \E i \in DOMAIN results :
       results[i].msg.kind =
         "Toggle element not found (timeout waiting for element after retry)"

\* the outcome is one of the evaluation loop of the batch being processed
OfEvaluation(r) ==
  r.task > start_idx(batch_num) /\ r.msg.kind # "Failed to open page: "

\* the rows of the batch evaluated so far, in the order of their outcomes
EvaluatedRows ==
  LET q == SelectSeq(results, OfEvaluation)
  IN  [i \in 1..Len(q) |-> q[i].task]

\* C24: in a batch every row has gone through the opening loop before a page
\* is evaluated; the pages are evaluated one at a time in the order they
\* were opened; the state machine runs on a page only after bring_to_front
\* returned for it, and when bring_to_front raised the state machine is not
\* run and a fault is recorded for the row.
C24_OpenThenEvaluate ==
  /\ \A i, j \in DOMAIN pages : i < j => pages[i] < pages[j]
  /\ pc = "open" =>
       /\ idx = 0 /\ sm = IdleSm /\ EvaluatedRows = <<>>
  /\ pc \in {"load", "front"} \cup EvalPcs =>
       batch_idx = BatchLen(batch_num, total_urls)
  /\ pc = "load" => sm = IdleSm /\ EvaluatedRows = <<>>
  /\ pc \in {"front"} \cup SmPcs \cup {"append"} =>
       EvaluatedRows = SubSeq(pages, 1, idx)
  /\ pc = "close" => EvaluatedRows = SubSeq(pages, 1, idx + 1)
  /\ pc = "front" => sm = IdleSm
  /\ pc \in SmPcs \cup {"append"} => sm.front = "ok"
  /\ sm.ran => sm.front = "ok"
  /\ sm.front = "raise" =>
       /\ pc = "close" /\ ~sm.ran /\ sm.events = <<>>
       /\ LastResult.task = pages[idx + 1]
       /\ LastResult.status \in Faults
       /\ LastResult.msg.kind = "Error: "

\* bring_to_front raised for the second page of a batch after the first
\* page was evaluated
C24_Witness ==
  /\ pc = "close" /\ idx = 1 /\ sm.front = "raise"
  /\ Len(results) = 2 /\ results[1].task = pages[1]

\* what the state machine did to the page after it read the control
AfterRead ==
  LET r == CHOOSE i \in DOMAIN sm.events : sm.events[i] = "read"
  IN  SubSeq(sm.events, r + 1, Len(sm.events))

\* C25: in set_toggle_state a click on the control comes right after a call
\* of dismiss_popups has returned, the forced click only right after the
\* normal click raised, the settle right after the click that returned, and
\* the click on a save control right after the second call of
\* dismiss_popups; a task whose change was saved went through dismiss,
\* click (or raised click, forced click), settle, dismiss, save click.
C25_DismissBeforeClicks ==
  mode = "toggle" =>
    /\ \A i \in DOMAIN sm.events :
         /\ sm.events[i] \in {"toggle_click", "toggle_click_raised"} =>
              i > 1 /\ sm.events[i - 1] = "dismiss"
         /\ sm.events[i] = "toggle_force_click" =>
              i > 1 /\ sm.events[i - 1] = "toggle_click_raised"
         /\ sm.events[i] = "settle" =>
              i > 1 /\ sm.events[i - 1] \in {"toggle_click", "toggle_force_click"}
         /\ sm.events[i] = "save_click" =>
              /\ i > 2 /\ sm.events[i - 1] = "dismiss"
              /\ sm.events[i - 2] = "settle"
    /\ sm.clicks <= 1 /\ sm.saveClicks <= 1
    /\ pc \in {"sm_click", "sm_save"} =>
         sm.events[Len(sm.events)] = "dismiss"
    /\ sm.saveClicks = 1 =>
         AfterRead \in
           {<<"dismiss", "toggle_click", "settle", "dismiss", "save_click">>,
            <<"dismiss", "toggle_click_raised", "toggle_force_click",
              "settle", "dismiss", "save_click">>}

\* a change was saved after the normal click on the control raised and the
\* forced click returned
C25_Witness ==
  /\ mode = "toggle" /\ pc = "close" /\ sm.saveClicks = 1
  /\ AfterRead = <<"dismiss", "toggle_click_raised", "toggle_force_click",
                   "settle", "dismiss", "save_click">>
  /\ LastResult.status = "success"

\* C26: login() is called at most once in a run, on the first page, before
\* any batch, with the credentials of the first row and only after
\* is_login_page found a login form; when it found none the batches run
\* without a call of login(); no other row's credentials are submitted.
C26_LoginOnce ==
  /\ sess.logins <= 1
  /\ sess.cred \subseteq {FirstRow}
  /\ sess.logins = 1 => sess.form = "login_page" /\ sess.cred = {FirstRow}
  /\ sess.logins = 0 => sess.cred = {} /\ sess.login \in {"none", "no_form"}
  /\ sess.form = "other_page" => sess.logins = 0 /\ sess.login = "no_form"
  /\ pc = "login" => /\ sess.form = "login_page" /\ sess.logins = 0
                     /\ results = <<>> /\ pages = <<>> /\ batch_num = 0
                     /\ sm = IdleSm
  /\ pc \in BatchPcs => /\ sess.form \in {"login_page", "other_page"}
                        /\ sess.form = "login_page" <=> sess.logins = 1

\* the second task is recorded in a run that logged in on the first page
C26_Witness ==
  /\ sess.logins = 1 /\ sess.cred = {FirstRow}
  /\ pc = "close" /\ Len(results) = 2 /\ results[2].task = 2

\* a task is recorded in a run that found no login form
C26_NoFormWitness ==
  /\ sess.form = "other_page" /\ sess.logins = 0
  /\ pc = "close" /\ Len(results) = 1

\* the rows whose pages the batch holds
PageRows == {pages[i] : i \in DOMAIN pages}

\* the page under evaluation did not reach network-idle in the load-wait loop
SlowPage == pc \in {"front"} \cup EvalPcs /\ idx < Len(pages) /\ pages[idx + 1] \in slow

\* the outcomes recorded for the pages of the batch
BatchOutcomes == {i \in DOMAIN results : results[i].task \in PageRows}

\* C27, as stated: a page that timed out in the load-wait loop stays in the
\* batch, gets no outcome from the load-wait loop, has the state machine run
\* on it in its turn, and its outcome is the state machine's result.
C27_SolelyStateMachine ==
  /\ slow \subseteq PageRows
  /\ pc = "load" => BatchOutcomes = {}
  /\ pc \in {"front"} \cup EvalPcs =>
       slow \subseteq {pages[i] : i \in (idx + 1)..Len(pages)}
  /\ (SlowPage /\ pc = "close") =>
       /\ sm.ran
       /\ LastResult = Recorded(pages[idx + 1], result)

\* C27, amended: a page that timed out in the load-wait loop stays in the
\* batch, gets no outcome from the load-wait loop and is evaluated in its
\* turn; its outcome is the state machine's result when bring_to_front
\* returned, and the record of the handler of the evaluation loop when
\* bring_to_front raised.
C27_SlowPageEvaluated ==
  /\ slow \subseteq PageRows
  /\ pc = "load" => BatchOutcomes = {}
  /\ pc \in {"front"} \cup EvalPcs =>
       slow \subseteq {pages[i] : i \in (idx + 1)..Len(pages)}
  /\ pc \notin {"load", "front"} \cup EvalPcs => slow = {}
  /\ (SlowPage /\ pc = "close") =>
       /\ LastResult.task = pages[idx + 1]
       /\ Cardinality({i \in DOMAIN results : results[i].task = pages[idx + 1]}) = 1
       /\ IF sm.ran
          THEN LastResult = Recorded(pages[idx + 1], result)
          ELSE /\ sm.front = "raise"
               /\ \E n \in ExcLens : LastResult = EvalFailed(pages[idx + 1], n)

\* a page that timed out in the load-wait loop was set to the desired state
C27_Witness ==
  /\ SlowPage /\ pc = "close" /\ sm.ran /\ mode = "toggle"
  /\ LastResult.status = "success" /\ sm.saveClicks = 1

(***************************************************************************)
(* The counts of print_summary.                                            *)
(***************************************************************************)
\* sum(1 for r in self.results if r['status'] == v)
CountOf(S) == Cardinality({i \in DOMAIN results : results[i].status \in S})

total == Len(results)
success == CountOf({"success"})
failed == CountOf({"failed"})
errors == CountOf({"error"})
skipped == CountOf({"skipped"})
on_count == CountOf({"ON"})
off_count == CountOf({"OFF"})
error_count == CountOf({"ERROR", "NOT_FOUND", "UNKNOWN"})

\* C28: whatever the list of results holds, the counts of the summary add up
\* to its length: success + failed + errors + skipped in toggle_automation,
\* on_count + off_count + error_count in check_status.
C28_CountsPartition ==
  /\ mode = "toggle" => success + failed + errors + skipped = total
  /\ mode = "check" => on_count + off_count + error_count = total

\* the summary of a finished run of toggle_automation counts one success
\* and one error
C28_Witness ==
  /\ pc = "done" /\ finalized = 1 /\ mode = "toggle"
  /\ total = 2 /\ success = 1 /\ errors = 1

\* the two conditions of C29 on one dict of toggle_automation
WellFormedOutcome(r) ==
  /\ r.status = "success" => r.after = state
  /\ r.before = "UNKNOWN" => r.after = "UNKNOWN"

\* C29: in toggle_automation every dict in the list of results, and the
\* dict set_toggle_state is filling, has toggle_state_after equal to the
\* desired state when its status is 'success', and toggle_state_after
\* 'UNKNOWN' when its toggle_state_before is 'UNKNOWN'.
C29_OutcomeFields ==
  mode = "toggle" =>
    /\ \A i \in DOMAIN results : WellFormedOutcome(results[i])
    /\ pc \in EvalPcs /\ sm.ran => WellFormedOutcome(result)

\* after a task that could not be read, a task was changed to the desired
\* state
C29_Witness ==
  /\ mode = "toggle" /\ pc = "close" /\ Len(results) = 2
  /\ results[1].before = "UNKNOWN" /\ results[1].after = "UNKNOWN"
  /\ results[2].status = "success" /\ results[2].after = state
  /\ results[2].before # results[2].after

\* the reload after the first wait for the control raised: the exception left
\* the loop before its second attempt
ReloadFailed ==
  sm.ran /\ sm.reloads = 1 /\ sm.raised /\ sm.attempt = 0

\* C30: when page.reload (or the pause after it) raises in the retry branch,
\* the handler of the state machine writes the error status, the task is
\* recorded with it, wait_for_selector is not called a second time, and
\* neither the control nor a save control is clicked.
C30_ReloadFailure ==
  ReloadFailed =>
    /\ pc \in {"append", "close"}
    /\ result.status \in Faults
    /\ result.status = IF mode = "toggle" THEN "error" ELSE "ERROR"
    /\ pc = "close" => LastResult = Recorded(pages[idx + 1], result)
    /\ sm.waits = 1 /\ ~sm.toggle_found
    /\ sm.count = "?" /\ sm.reads = 0
    /\ sm.clickTries = 0 /\ sm.clicks = 0
    /\ sm.sel = 0 /\ sm.saveTries = 0 /\ sm.saveClicks = 0
    /\ \A i \in DOMAIN sm.events :
         sm.events[i] \notin {"toggle_click", "toggle_click_raised",
                              "toggle_force_click", "save_click"}

\* a task is recorded after its reload raised
C30_Witness ==
  /\ ReloadFailed /\ pc = "close"
  /\ LastResult.task = pages[idx + 1] /\ LastResult.status \in Faults

\* the clicks of the task under evaluation that returned, by kind
ToggleClicks ==
  {i \in DOMAIN sm.events : sm.events[i] \in {"toggle_click", "toggle_force_click"}}

SaveClicks == {i \in DOMAIN sm.events : sm.events[i] = "save_click"}

\* the messages of the outcomes that set_toggle_state returns before the
\* loop over the save selectors clicked anything
UnsavedKinds ==
  {"Toggle element not found (timeout waiting for element after retry)",
   "Toggle element not found", "Already in desired state: ",
   "Save button not found"}

\* C31: for one task of toggle_automation at most one click on the control
\* returns and at most one click on a save control returns, the latter only
\* after the former; a task that ends as not found, already in the desired
\* state or save button not found has had no click on a save control, and
\* the control was not read again for it.  (The site takes a change when a
\* save control is clicked: a task without such a click has changed nothing.)
C31_SaveAfterToggleOnce ==
  mode = "toggle" =>
    /\ Cardinality(ToggleClicks) <= 1 /\ sm.clicks = Cardinality(ToggleClicks)
    /\ Cardinality(SaveClicks) <= 1 /\ sm.saveClicks = Cardinality(SaveClicks)
    /\ \A i \in SaveClicks : \E j \in ToggleClicks : j < i
    /\ sm.saveClicks = 1 => sm.clicks = 1
    /\ pc \in {"sm_save", "sm_post_wait", "sm_reread"} => sm.clicks = 1
    /\ (Returned /\ result.msg.kind \in UnsavedKinds) =>
         /\ sm.saveClicks = 0 /\ ~sm.saved
         /\ sm.reseen = "?"
         /\ result.after \in {"UNKNOWN", result.before}
         /\ result.msg.kind # "Save button not found" => sm.clicks = 0
    /\ (Returned /\ sm.saveClicks = 0) =>
         /\ sm.reseen = "?"
         /\ result.after \in {"UNKNOWN", result.before}

\* a task is recorded as save button not found: the control was clicked, the
\* clicks on a save control raised, none returned
C31_Witness ==
  /\ mode = "toggle" /\ pc = "close" /\ sm.ran
  /\ LastResult.msg.kind = "Save button not found"
  /\ sm.clicks = 1 /\ sm.saveTries = NumSaveSelectors /\ sm.saveClicks = 0

\* C33: a run on a sheet without rows does one thing, the return of line
\* 458: nothing was launched, no context or page was created, no outcome
\* was recorded, finalization did not run, and nothing follows the return;
\* no other run returns there.
C33_EmptyReturns ==
  /\ total_urls = 0 =>
       /\ pc \in {"start", "returned"}
       /\ browser = "none" /\ context = "none" /\ openPages = 0
       /\ sess = NoSession /\ ~established
       /\ pages = <<>> /\ closes = <<>> /\ sm = IdleSm
       /\ results = <<>> /\ finalized = 0
       /\ faulty = {}
       /\ pc = "returned" => ~ENABLED Next
  /\ pc = "returned" => total_urls = 0

\* the run on an empty sheet has returned
C33_Witness ==
  /\ total_urls = 0 /\ pc = "returned"
  /\ browser = "none" /\ finalized = 0 /\ results = <<>>

\* where the dispatcher of the script of mode is
DispatchPc ==
  CASE pc \in {"open", "load", "front", "close"} -> pc
    [] pc \in SmPcs \cup {"append", "dp_select", "dp_escape", "dp_remove",
                          "dp_return"} -> "evaluate"
    [] OTHER -> "run"

\* what the script of mode has dispatched
DispatchView ==
  [pc |-> DispatchPc, contexts |-> sess.contexts, batch_num |-> batch_num,
   batch_idx |-> batch_idx, pages |-> pages, idx |-> idx, closes |-> closes,
   outcomes |-> [i \in DOMAIN results |-> results[i].task]]

\* C32: run on the same sheet and given the same answers to new_context,
\* new_page/goto, the load-wait, bring_to_front and close, the dispatcher of
\* check_status.py is at every step where the dispatcher of the script of
\* mode is: the same contexts created, the same batch, the same pages opened
\* in the same order, the same page under the load-wait or the evaluation,
\* the same pages closed in the same order, and outcomes for the same rows
\* at the same positions of self.results.
C32_SameDispatch == peer = DispatchView

\* toggle_automation is evaluating the second page of a batch after an
\* outcome of the opening loop and one of the evaluation loop, and the
\* dispatcher of check_status.py is there too
C32_Witness ==
  /\ mode = "toggle" /\ pc \in SmPcs /\ sm.ran
  /\ peer.pc = "evaluate" /\ peer.idx = 1 /\ Len(peer.closes) = 1
  /\ Len(peer.outcomes) = 2 /\ Len(results) = 2
  /\ results[1].msg.kind = "Failed to open page: "

====
